---------------------------- MODULE Spec2Model ----------------------------
(***************************************************************************)
(* A model of cmd/minikube/cmd/kubectl.go: the `minikube kubectl` command. *)
(*                                                                         *)
(* One behaviour is one invocation of the command.  The cobra framework    *)
(* either asks the command for shell completions (ValidArgsFunction) or    *)
(* runs it (Run).  Everything the command calls but does not define        *)
(* (config.Load, mustload.Running, machine.CreateSSHShell,                 *)
(* detect.RuntimeArch, node.CacheKubectlBinary, exec.Cmd.Run, the embedded *)
(* kubectl completion command) is the environment: its result is drawn     *)
(* from a small set at the call site.                                      *)
(***************************************************************************)
EXTENDS Integers, Sequences, FiniteSets, TLC

(***************************************************************************)
(* Bounds of the model.                                                    *)
(***************************************************************************)
MaxArgs == 3        \* longest argument list handed to Run

MaxCompArgs == 1    \* longest argument list handed to ValidArgsFunction

MaxTextLen == 6     \* longest output, in bytes, of the completion command

(***************************************************************************)
(* Program constants.                                                      *)
(***************************************************************************)
ShellCompRequestCmd == "__complete"          \* cobra.ShellCompRequestCmd

ShellCompDirectiveError == 1                 \* cobra.ShellCompDirectiveError

DefaultKubernetesVersion == "v-default"  \* constants.DefaultKubernetesVersion

GuestPersistentDir == "/var/lib/minikube"    \* vmpath.GuestPersistentDir

SupportedArchitectures == <<"amd64", "arm", "arm64", "ppc64le", "s390x">>

ExitStatusMod == 256                         \* an exit status is one byte wide

(***************************************************************************)
(* Input domains.                                                          *)
(***************************************************************************)
RECURSIVE SeqsUpTo(_, _)
SeqsUpTo(S, n) ==
    IF n = 0 THEN {<<>>}
    ELSE LET shorter == SeqsUpTo(S, n - 1)
         IN  shorter \cup {Append(s, x) : s \in shorter, x \in S}

ArgTokens == {"--help", ShellCompRequestCmd, "get", "pods"}

ArgLists == SeqsUpTo(ArgTokens, MaxArgs)

CompArgLists == SeqsUpTo({"get"}, MaxCompArgs)

PartialTokens == {"", "po"}

ClusterNames == {"minikube", "c1"}

Archs == {"amd64", "arm64", "386", "riscv64"}

\* what config.Load can return: an error, or a configuration
NoConfig == [err |-> TRUE, version |-> "", mirror |-> ""]

LoadResults ==
    {NoConfig} \cup
    [err : {FALSE}, version : {"", "v1.19.0"}, mirror : {"", "https://mirror"}]

\* the Kubernetes version of a running cluster (never empty once started)
RunningVersions == {"v1.19.0", "v1.20.0"}

\* what node.CacheKubectlBinary can return
NoPath == ""

LocatorResults ==
    {[err |-> TRUE, path |-> NoPath]} \cup
    [err : {FALSE}, path : {"/cache/linux/kubectl", "/mirror/kubectl"}]

\* how the child of exec.Cmd.Run can end: it exits with a status, it is
\* killed by a signal, or it never starts
ChildStatuses == {0, 1, 42, 255}

ChildOutcomes ==
    [kind : {"exited"}, code : ChildStatuses] \cup
    {[kind |-> "signaled", code |-> -1], [kind |-> "notstarted", code |-> -1]}

\* how the remote session of machine.CreateSSHShell can end: the remote
\* client exits with a status, or the session itself fails
SessionOutcomes ==
    [kind : {"exited"}, code : ChildStatuses] \cup
    {[kind |-> "failed", code |-> -1]}

\* the statuses mustload.Running terminates the process with
MustloadExitCodes == {1, 89}

NoOutcome == [kind |-> "none", code |-> -1]

NoLocated == [err |-> FALSE, path |-> NoPath]

NoCmd == [path |-> NoPath, args |-> <<>>]


(***************************************************************************)
(* Pure functions of Run.                                                  *)
(***************************************************************************)
\* the loop over constants.SupportedArchitectures: supported = true at the
\* first element equal to arch
RECURSIVE ArchLoop(_, _)
ArchLoop(arch, i) ==
    IF i > Len(SupportedArchitectures) THEN FALSE
    ELSE IF arch = SupportedArchitectures[i] THEN TRUE
    ELSE ArchLoop(arch, i + 1)

\* supported, and a faulty variant that skips the loop
IsSupportedAlways(arch) == TRUE

IsSupported(arch) == ArchLoop(arch, 1)

\* the rewrite of the local argument list: --cluster <name> goes in front
\* unless the list is short, a help request or a completion request (and a
\* faulty variant that does not look at the first token)
ClusterScopedIgnoreFirst(a, name) ==
    IF Len(a) > 1 THEN <<"--cluster", name>> \o a ELSE a

ClusterScoped(a, name) ==
    IF Len(a) > 1 /\ a[1] # "--help" /\ a[1] # ShellCompRequestCmd
    THEN <<"--cluster", name>> \o a
    ELSE a

\* path.Join: the non-empty elements, separated by one slash
RECURSIVE PathJoin(_)
PathJoin(elems) ==
    IF elems = <<>> THEN ""
    ELSE LET rest == PathJoin(Tail(elems))
         IN  IF Head(elems) = "" THEN rest
             ELSE IF rest = "" THEN Head(elems)
             ELSE Head(elems) \o "/" \o rest

\* kubectlPath, and a faulty variant that ignores the cluster's version
kubectlPathDefaultVersion(v) ==
    PathJoin(<<GuestPersistentDir, "binaries", DefaultKubernetesVersion,
               "kubectl">>)

kubectlPath(v) == PathJoin(<<GuestPersistentDir, "binaries", v, "kubectl">>)

kubeconfigPath == "/etc/kubernetes/admin.conf"

\* the remote argument list
RemoteArgs(a, v) ==
    <<"sudo", kubectlPath(v), "--kubeconfig", kubeconfigPath>> \o a

\* KubectlCommand's version: the default when none is given (and a faulty
\* variant that passes the version on as it is)
ResolvedVersionAsGiven(v) == v

ResolvedVersion(v) == IF v = "" THEN DefaultKubernetesVersion ELSE v

\* os.Exit(rc): the status the parent of this process sees
ProcessStatus(rc) == rc % ExitStatusMod

\* waitStatus.ExitStatus(): the status of a child that exited, -1 otherwise
WaitExitStatus(o) == IF o.kind = "exited" THEN o.code ELSE -1

\* c.Run() returns an error unless the child exited with status 0, and the
\* error is an *exec.ExitError when the child ran and was waited for
RunFailed(o) == ~(o.kind = "exited" /\ o.code = 0)

IsExitError(o) == o.kind \in {"exited", "signaled"}

\* the rc Run exits with after a failed c.Run() (and a faulty variant that
\* does not read the child's status)
LocalRcAlwaysOne(o) == 1

LocalRc(o) == IF IsExitError(o) THEN WaitExitStatus(o) ELSE 1

\* machine.CreateSSHShell returns the error of the ssh client's session: nil
\* when the remote client exited with 0, an error otherwise
SessionFailed(o) == ~(o.kind = "exited" /\ o.code = 0)

(***************************************************************************)
(* Pure functions of ValidArgsFunction.  A text is a sequence of bytes,    *)
(* each a string of one character.                                         *)
(***************************************************************************)
TAB == "\t"

NL == "\n"

Chars == {"a", TAB, ":", "4", NL}

Texts == SeqsUpTo(Chars, MaxTextLen)

\* what completeCmd.Execute() can leave: an error, or no error and an output
ExecResults ==
    [err : {FALSE}, out : Texts] \cup
    [err : {TRUE}, out : {<<>>, <<"a", NL, ":", "4">>}]

\* the index of the first c in s from position i on, 0 when there is none
RECURSIVE IndexFrom(_, _, _)
IndexFrom(s, c, i) ==
    IF i > Len(s) THEN 0
    ELSE IF s[i] = c THEN i
    ELSE IndexFrom(s, c, i + 1)

\* bufio.Scanner with bufio.ScanLines: the text up to each newline, and a
\* last unterminated line when it is not empty.  (No carriage return is in
\* Chars, so the scanner's dropCR changes nothing here.)
RECURSIVE ScanLines(_)
ScanLines(text) ==
    IF Len(text) = 0 THEN <<>>
    ELSE LET i == IndexFrom(text, NL, 1)
         IN  IF i = 0 THEN <<text>>
             ELSE <<SubSeq(text, 1, i - 1)>> \o ScanLines(SubSeq(text, i + 1,
                    Len(text)))

\* strings.Split(line, "\t")[0] (and a faulty variant that keeps the
\* description)
StripDescriptionKeepAll(line) == line

StripDescription(line) ==
    LET i == IndexFrom(line, TAB, 1)
    IN  IF i = 0 THEN line ELSE SubSeq(line, 1, i - 1)

\* strings.TrimPrefix(s, ":")
TrimColon(s) == IF Len(s) > 0 /\ s[1] = ":" THEN Tail(s) ELSE s

DigitValue(c) ==
    CASE c = "0" -> 0 [] c = "1" -> 1 [] c = "2" -> 2 [] c = "3" -> 3
      [] c = "4" -> 4 [] c = "5" -> 5 [] c = "6" -> 6 [] c = "7" -> 7
      [] c = "8" -> 8 [] c = "9" -> 9 [] OTHER -> -1

\* strconv.Atoi's loop over the digits of s, n the value so far
RECURSIVE AtoiLoop(_, _, _)
AtoiLoop(s, i, n) ==
    IF i > Len(s) THEN [ok |-> TRUE, val |-> n]
    ELSE IF DigitValue(s[i]) < 0 THEN [ok |-> FALSE, val |-> 0]
    ELSE AtoiLoop(s, i + 1, n * 10 + DigitValue(s[i]))

\* strconv.Atoi: an optional sign, then at least one digit, all digits.
\* (No text of the model is long enough to leave the range of int.)
Atoi(s) ==
    IF Len(s) = 0 THEN [ok |-> FALSE, val |-> 0]
    ELSE LET signed == s[1] \in {"+", "-"}
             digits == IF signed THEN Tail(s) ELSE s
             r == AtoiLoop(digits, 1, 0)
         IN  IF Len(digits) = 0 THEN [ok |-> FALSE, val |-> 0]
             ELSE IF r.ok /\ s[1] = "-" THEN [ok |-> TRUE, val |-> -r.val]
             ELSE r

CompletionError == [completions |-> <<>>, directive |-> ShellCompDirectiveError]

\* lines 70-87: the scan of the output and the directive of its last line
ParseCompletions(text) ==
    LET lines == ScanLines(text)
        comps == [i \in 1..Len(lines) |-> StripDescription(lines[i])]
        n     == Len(comps)
    IN  IF n = 0 THEN CompletionError
        ELSE LET d == Atoi(TrimColon(comps[n]))
             IN  IF ~d.ok THEN CompletionError
                 ELSE [completions |-> SubSeq(comps, 1, n - 1),
                 directive |-> d.val]

(***************************************************************************)
(* The state of one invocation.                                            *)
(***************************************************************************)
VARIABLES
    kind,          \* "run": cobra calls Run; "complete": it calls ValidArgsFunction
    pc,            \* the position of the invocation
    origArgs,      \* the arguments cobra hands over
    toComplete,    \* the partial token of a completion request
    useSSH,        \* the --ssh flag
    arch,          \* detect.RuntimeArch()
    cname,         \* ClusterFlagValue()
    args,          \* Run's args, as it rewrites them
    cc,            \* the result of config.Load
    version,       \* Run's version
    binaryMirror,  \* Run's binaryMirror
    co,            \* the Kubernetes version of mustload.Running's cluster
    sshCalls,      \* the argument lists given to machine.CreateSSHShell
    sessionErr,    \* how the remote session ended
    locatorCalls,  \* the <<version, url>> pairs given to node.CacheKubectlBinary
    located,       \* what node.CacheKubectlBinary returned
    cmd,           \* the exec.Cmd of KubectlCommand: its Path and Args
    runCalls,      \* the commands c.Run() was called on
    runErr,        \* how the local child ended
    stderr,        \* the diagnostics written
    exitCalled,    \* os.Exit was called
    status,        \* the exit status of the process
    completeArgs,  \* the arguments set on the embedded completion command
    execErr,       \* its Execute failed
    out,           \* its output
    completions,   \* ValidArgsFunction's first result
    directive      \* ValidArgsFunction's second result

runVars == <<args, cc, version, binaryMirror, co, sshCalls, sessionErr,
             locatorCalls, located, cmd, runCalls, runErr, stderr, exitCalled,
             status>>

inputVars == <<kind, origArgs, toComplete, useSSH, arch, cname>>

compVars == <<completeArgs, execErr, out, completions, directive>>

vars == <<pc, inputVars, runVars, compVars>>

Diag(msg, arg, err) == [msg |-> msg, arg |-> arg, err |-> err]

Init ==
    /\ \/ /\ kind = "run"
          /\ origArgs \in ArgLists
          /\ toComplete = ""
          /\ useSSH \in BOOLEAN
          /\ arch \in Archs
       \/ /\ kind = "complete"
          /\ origArgs \in CompArgLists
          /\ toComplete \in PartialTokens
          /\ useSSH = FALSE
          /\ arch = "amd64"
    /\ cname \in ClusterNames
    /\ pc = "start"
    /\ args = origArgs
    /\ cc = NoConfig
    /\ version = ""
    /\ binaryMirror = ""
    /\ co = ""
    /\ sshCalls = <<>>
    /\ sessionErr = NoOutcome
    /\ locatorCalls = <<>>
    /\ located = NoLocated
    /\ cmd = NoCmd
    /\ runCalls = <<>>
    /\ runErr = NoOutcome
    /\ stderr = <<>>
    /\ exitCalled = FALSE
    /\ status = 0
    /\ completeArgs = <<>>
    /\ execErr = FALSE
    /\ out = <<>>
    /\ completions = <<>>
    /\ directive = 0

\* os.Exit(rc) after the diagnostics d
Exit(d, rc) ==
    /\ stderr' = stderr \o d
    /\ exitCalled' = TRUE
    /\ status' = ProcessStatus(rc)
    /\ pc' = "exited"

\* Run returns: the process ends with status 0
Return ==
    /\ pc' = "returned"
    /\ UNCHANGED <<stderr, exitCalled, status>>

(***************************************************************************)
(* Run, lines 89-159, one action per call into the environment.            *)
(***************************************************************************)
\* lines 90-99: config.Load and the defaults (LoadConfigFatal is a faulty
\* variant that treats the error of config.Load as fatal)
LoadConfigFatal ==
    /\ pc = "start"
    /\ kind = "run"
    /\ \E r \in LoadResults :
         /\ cc' = r
         /\ IF r.err
            THEN /\ Exit(<<Diag("Error loading config", cname, "load")>>, 1)
                 /\ UNCHANGED <<version, binaryMirror>>
            ELSE /\ version' = r.version
                 /\ binaryMirror' = r.mirror
                 /\ pc' = "loaded"
                 /\ UNCHANGED <<stderr, exitCalled, status>>
    /\ UNCHANGED <<inputVars, compVars, args, co, sshCalls, sessionErr,
                   locatorCalls, located, cmd, runCalls, runErr>>

LoadConfig ==
    /\ pc = "start"
    /\ kind = "run"
    /\ \E r \in LoadResults :
         /\ cc' = r
         /\ version' = IF r.err THEN DefaultKubernetesVersion ELSE r.version
         /\ binaryMirror' = IF r.err THEN "" ELSE r.mirror
    /\ pc' = "loaded"
    /\ UNCHANGED <<inputVars, compVars, args, co, sshCalls, sessionErr,
                   locatorCalls, located, cmd, runCalls, runErr, stderr,
                   exitCalled, status>>

\* lines 101-109: mustload.Running ends the process unless the cluster is
\* running; then the remote argument list is built
RunningCluster ==
    /\ pc = "loaded"
    /\ useSSH
    /\ \/ /\ \E rc \in MustloadExitCodes :
                Exit(<<Diag("mustload.Running", cname, "not running")>>, rc)
          /\ UNCHANGED <<co, args>>
       \/ /\ \E v \in RunningVersions :
                /\ co' = v
                /\ args' = RemoteArgs(args, v)
          /\ pc' = "ssh"
          /\ UNCHANGED <<stderr, exitCalled, status>>
    /\ UNCHANGED <<inputVars, compVars, cc, version, binaryMirror, sshCalls,
                   sessionErr, locatorCalls, located, cmd, runCalls, runErr>>

\* lines 111-112: the remote session, until it ends
CreateSSHShell ==
    /\ pc = "ssh"
    /\ \E o \in SessionOutcomes : sessionErr' = o
    /\ sshCalls' = Append(sshCalls, args)
    /\ pc' = "sshEnded"
    /\ UNCHANGED <<inputVars, compVars, args, cc, version, binaryMirror, co,
                   locatorCalls, located, cmd, runCalls, runErr, stderr,
                   exitCalled, status>>

\* lines 113-117: any error of the session is exit status 1
SessionResult ==
    /\ pc = "sshEnded"
    /\ IF SessionFailed(sessionErr)
       THEN Exit(<<Diag("Error running kubectl", "", sessionErr.kind)>>, 1)
       ELSE Return
    /\ UNCHANGED <<inputVars, compVars, args, cc, version, binaryMirror, co,
                   sshCalls, sessionErr, locatorCalls, located, cmd, runCalls,
                   runErr>>

\* lines 120-131: the architecture check of local mode (CheckArchAnyMode is
\* a faulty variant that checks the architecture before the mode)
CheckArchAnyMode ==
    /\ pc = "loaded"
    /\ IF IsSupported(arch)
       THEN /\ pc' = "archOK"
            /\ ~useSSH
            /\ UNCHANGED <<stderr, exitCalled, status>>
       ELSE Exit(<<Diag("Not supported on", arch, "")>>, 1)
    /\ UNCHANGED <<inputVars, compVars, args, cc, version, binaryMirror, co,
                   sshCalls, sessionErr, locatorCalls, located, cmd, runCalls,
                   runErr>>

CheckArch ==
    /\ pc = "loaded"
    /\ ~useSSH
    /\ IF IsSupported(arch)
       THEN /\ pc' = "archOK"
            /\ UNCHANGED <<stderr, exitCalled, status>>
       ELSE Exit(<<Diag("Not supported on", arch, "")>>, 1)
    /\ UNCHANGED <<inputVars, compVars, args, cc, version, binaryMirror, co,
                   sshCalls, sessionErr, locatorCalls, located, cmd, runCalls,
                   runErr>>

\* lines 133-136: the cluster-scoping flags
InjectCluster ==
    /\ pc = "archOK"
    /\ args' = ClusterScoped(args, cname)
    /\ pc' = "scoped"
    /\ UNCHANGED <<inputVars, compVars, cc, version, binaryMirror, co, sshCalls,
                   sessionErr, locatorCalls, located, cmd, runCalls, runErr,
                   stderr,
                   exitCalled, status>>

\* lines 138-142 and 172-184: KubectlCommand asks the locator for the binary
\* of the resolved version and builds the command on its path
KubectlCommand ==
    /\ pc = "scoped"
    /\ locatorCalls' = Append(locatorCalls, <<ResolvedVersion(version),
                                              binaryMirror>>)
    /\ \E r \in LocatorResults :
         /\ located' = r
         /\ IF r.err
            THEN /\ Exit(<<Diag("Error caching kubectl", "", "locator")>>, 1)
                 /\ UNCHANGED cmd
            ELSE /\ cmd' = [path |-> r.path, args |-> args]
                 /\ pc' = "cmd"
                 /\ UNCHANGED <<stderr, exitCalled, status>>
    /\ UNCHANGED <<inputVars, compVars, args, cc, version, binaryMirror, co,
                   sshCalls, sessionErr, runCalls, runErr>>

\* lines 144-148: c.Run(), until the child ends
CmdRun ==
    /\ pc = "cmd"
    /\ \E o \in ChildOutcomes : runErr' = o
    /\ runCalls' = Append(runCalls, cmd)
    /\ pc' = "ran"
    /\ UNCHANGED <<inputVars, compVars, args, cc, version, binaryMirror, co,
                   sshCalls, sessionErr, locatorCalls, located, cmd, stderr,
                   exitCalled,
                   status>>

\* lines 148-158: the child's status becomes this process's status
\* (ChildResultRetry is a faulty variant that runs a failed command again)
ChildResultRetry ==
    /\ pc = "ran"
    /\ IF RunFailed(runErr)
       THEN /\ pc' = "cmd"
            /\ UNCHANGED <<stderr, exitCalled, status>>
       ELSE Return
    /\ UNCHANGED <<inputVars, compVars, args, cc, version, binaryMirror, co,
                   sshCalls, sessionErr, locatorCalls, located, cmd, runCalls,
                   runErr>>

ChildResult ==
    /\ pc = "ran"
    /\ IF RunFailed(runErr)
       THEN Exit(IF IsExitError(runErr) THEN <<>>
                 ELSE <<Diag("Error running", cmd.path, runErr.kind)>>,
                 LocalRc(runErr))
       ELSE Return
    /\ UNCHANGED <<inputVars, compVars, args, cc, version, binaryMirror, co,
                   sshCalls, sessionErr, locatorCalls, located, cmd, runCalls,
                   runErr>>

(***************************************************************************)
(* ValidArgsFunction, lines 60-88.                                         *)
(***************************************************************************)
ValidArgsFunction ==
    /\ pc = "start"
    /\ kind = "complete"
    /\ completeArgs' = <<ShellCompRequestCmd>> \o origArgs \o <<toComplete>>
    /\ \E r \in ExecResults :
         /\ execErr' = r.err
         /\ out' = r.out
         /\ LET res == IF r.err THEN CompletionError ELSE ParseCompletions(r.out)
            IN  /\ completions' = res.completions
                /\ directive' = res.directive
    /\ pc' = "completed"
    /\ UNCHANGED <<inputVars, runVars>>

Next ==
    \/ LoadConfig
    \/ RunningCluster
    \/ CreateSSHShell
    \/ SessionResult
    \/ CheckArch
    \/ InjectCluster
    \/ KubectlCommand
    \/ CmdRun
    \/ ChildResult
    \/ ValidArgsFunction

Spec == Init /\ [][Next]_vars

\* Run is sequential code: once the session or the child has ended, the
\* statements that follow are executed
FairSpec == Spec /\ WF_vars(SessionResult) /\ WF_vars(ChildResult)

(***************************************************************************)
(* Vocabulary of the properties.                                           *)
(***************************************************************************)
Terminal == {"returned", "exited", "completed"}

Local == kind = "run" /\ ~useSSH

Remote == kind = "run" /\ useSSH

SupportedSet == {SupportedArchitectures[i] : i \in DOMAIN SupportedArchitectures}

Messages == {stderr[i].msg : i \in DOMAIN stderr}

Executions == Len(runCalls) + Len(sshCalls)

\* C1: in local mode the list handed to the client binary is the original
\* list when that list has at most one element or starts with --help or the
\* completion-request token, and otherwise --cluster, the cluster name and
\* then the original list.
C1_ClusterFlags ==
    (Local /\ cmd # NoCmd) =>
        LET expected ==
                IF \/ Len(origArgs) <= 1
                   \/ origArgs[1] = "--help"
                   \/ origArgs[1] = ShellCompRequestCmd
                THEN origArgs
                ELSE <<"--cluster", cname>> \o origArgs
        IN  /\ cmd.args = expected
            /\ \A i \in DOMAIN runCalls : runCalls[i].args = expected

C1_Witness ==
    /\ Local
    /\ origArgs = <<"get", "pods">>
    /\ Len(runCalls) = 1
    /\ runCalls[1].args = <<"--cluster", cname, "get", "pods">>

\* C2: in remote mode the list given to the remote session is sudo, the
\* kubectl of the running cluster's version under the guest persistent
\* directory, --kubeconfig, /etc/kubernetes/admin.conf and then the original
\* list, with no --cluster added.
C2_RemoteArgs ==
    Remote =>
        \A i \in DOMAIN sshCalls :
            /\ sshCalls[i] =
                   <<"sudo", GuestPersistentDir \o "/binaries/" \o co \o "/kubectl",
                     "--kubeconfig", "/etc/kubernetes/admin.conf">> \o origArgs
            /\ \A j \in 1..4 : sshCalls[i][j] # "--cluster"

C2_Witness ==
    /\ Remote
    /\ origArgs = <<"get", "pods">>
    /\ sshCalls = << <<"sudo", "/var/lib/minikube/binaries/v1.20.0/kubectl",
                       "--kubeconfig", "/etc/kubernetes/admin.conf", "get", "pods">> >>

\* C3: in local mode a child that exits with 0 leads to no exit call and
\* status 0, a child that exits with N # 0 makes the process exit with N,
\* and a child that never started makes it exit with 1 after one diagnostic
\* naming the binary path and the error.
C3_LocalStatus ==
    (Local /\ pc \in Terminal /\ runErr # NoOutcome) =>
        /\ (runErr.kind = "exited" /\ runErr.code = 0) =>
               /\ pc = "returned"
               /\ ~exitCalled
               /\ status = 0
               /\ stderr = <<>>
        /\ (runErr.kind = "exited" /\ runErr.code # 0) =>
               /\ exitCalled
               /\ status = runErr.code
        /\ runErr.kind = "notstarted" =>
               /\ exitCalled
               /\ status = 1
               /\ stderr = <<Diag("Error running", runCalls[1].path, "notstarted")>>

C3_Witness ==
    /\ Local
    /\ pc = "exited"
    /\ runErr = [kind |-> "exited", code |-> 42]
    /\ status = 42

\* C4: in remote mode a remote client that ends with status N makes this
\* process end with status N.
C4_RemoteStatus ==
    (Remote /\ pc \in Terminal /\ sessionErr.kind = "exited") =>
        status = sessionErr.code

\* C5: in local mode a supported architecture leads on to the Binary
\* Locator, and an unsupported one ends the process with status 1 after a
\* diagnostic naming it, with the locator never called and no child run.
C5_ArchCheck ==
    (Local /\ pc \notin {"start", "loaded"}) =>
        IF arch \in SupportedSet
        THEN /\ "Not supported on" \notin Messages
             /\ pc \in {"archOK", "scoped"} \/ Len(locatorCalls) = 1
        ELSE /\ pc = "exited"
             /\ status = 1
             /\ stderr = <<Diag("Not supported on", arch, "")>>
             /\ locatorCalls = <<>>
             /\ cmd = NoCmd
             /\ runCalls = <<>>

C5_Witness ==
    /\ Local
    /\ arch = "riscv64"
    /\ pc = "exited"
    /\ status = 1

(***************************************************************************)
(* The completion response, as the properties read it.                     *)
(***************************************************************************)
Digits == {"0", "1", "2", "3", "4", "5", "6", "7", "8", "9"}

IsDigits(s) == Len(s) >= 1 /\ \A i \in DOMAIN s : s[i] \in Digits

IsInteger(s) ==
    \/ IsDigits(s)
    \/ Len(s) >= 2 /\ s[1] \in {"+", "-"} /\ IsDigits(Tail(s))

\* an integer, optionally prefixed by a colon
IsDirectiveLine(l) ==
    \/ IsInteger(l)
    \/ Len(l) >= 1 /\ l[1] = ":" /\ IsInteger(Tail(l))

\* the number a directive line writes
RECURSIVE Magnitude(_)
Magnitude(ds) ==
    IF ds = <<>> THEN 0
    ELSE 10 * Magnitude(SubSeq(ds, 1, Len(ds) - 1))
           + (CHOOSE d \in 0..9 : ToString(d) = ds[Len(ds)])

DirectiveOf(l) ==
    LET t == IF l[1] = ":" THEN Tail(l) ELSE l
    IN  IF t[1] = "-" THEN -Magnitude(Tail(t))
        ELSE IF t[1] = "+" THEN Magnitude(Tail(t))
        ELSE Magnitude(t)

\* a line up to its first tab: its longest prefix without one
BeforeTab(l) ==
    LET k == CHOOSE n \in 0..Len(l) :
                 /\ \A i \in 1..n : l[i] # TAB
                 /\ n < Len(l) => l[n + 1] = TAB
    IN  SubSeq(l, 1, k)

Candidates(lines) == [i \in 1..(Len(lines) - 1) |-> BeforeTab(lines[i])]

ReturnsError == completions = <<>> /\ directive = ShellCompDirectiveError

C7_ConfigLoad ==
    (kind = "run" /\ pc # "start") =>
        /\ version = (IF cc.err THEN DefaultKubernetesVersion ELSE cc.version)
        /\ binaryMirror = (IF cc.err THEN "" ELSE cc.mirror)
        /\ pc = "loaded" => (~exitCalled /\ stderr = <<>>)
        /\ Messages \subseteq {"mustload.Running", "Error running kubectl",
                               "Not supported on", "Error caching kubectl",
                               "Error running"}
        /\ (exitCalled /\ stderr = <<>>) => runErr.kind \in {"exited", "signaled"}

C7_Witness ==
    /\ Local
    /\ cc.err
    /\ pc = "returned"
    /\ locatorCalls = << <<DefaultKubernetesVersion, "">> >>

\* C8: a local invocation that passed the architecture check calls the
\* Binary Locator exactly once, with the version (the default for an empty
\* one) and the mirror; the child runs the very path it returned, and when
\* it returns an error the process exits with 1 after a diagnostic and no
\* child is run.
C8_Locator ==
    /\ Len(locatorCalls) <= 1
    /\ (Local /\ pc \in {"cmd", "ran", "returned", "exited"} /\ arch \in SupportedSet) =>
        /\ locatorCalls =
               << <<IF version = "" THEN DefaultKubernetesVersion ELSE version,
                    binaryMirror>> >>
        /\ IF located.err
           THEN /\ pc = "exited"
                /\ status = 1
                /\ stderr = <<Diag("Error caching kubectl", "", "locator")>>
                /\ cmd = NoCmd
                /\ runCalls = <<>>
           ELSE /\ cmd.path = located.path
                /\ \A i \in DOMAIN runCalls : runCalls[i].path = located.path

C8_Witness ==
    /\ Local
    /\ cc = [err |-> FALSE, version |-> "", mirror |-> "https://mirror"]
    /\ locatorCalls = << <<DefaultKubernetesVersion, "https://mirror">> >>
    /\ located.path = "/mirror/kubectl"
    /\ Len(runCalls) = 1
    /\ runCalls[1].path = "/mirror/kubectl"

\* C9: in remote mode, whatever the host architecture, nothing is said
\* about an unsupported architecture, the Binary Locator is never called
\* and no local child is run; the invocation goes from the mode selection
\* to the remote session, and the process is ended only because the cluster
\* is not running or the session returned an error.
C9_RemoteOnly ==
    Remote =>
        /\ "Not supported on" \notin Messages
        /\ locatorCalls = <<>>
        /\ cmd = NoCmd
        /\ runCalls = <<>>
        /\ pc \in {"start", "loaded", "ssh", "sshEnded", "returned", "exited"}
        /\ exitCalled =>
              \/ stderr = <<Diag("mustload.Running", cname, "not running")>>
                   /\ sshCalls = <<>>
              \/ stderr = <<Diag("Error running kubectl", "", sessionErr.kind)>>
                   /\ SessionFailed(sessionErr)

C9_Witness ==
    /\ Remote
    /\ arch = "riscv64"
    /\ pc = "returned"
    /\ Len(sshCalls) = 1

\* the place of each position in Start -> {CompletionRequested,
\* NormalInvocation} -> ModeSelect -> {Local, Remote} -> Executed ->
\* {Propagated, Diagnosed}
Phase(p) ==
    CASE p = "start" -> 0
      [] p = "loaded" -> 1
      [] p \in {"ssh", "archOK", "scoped", "cmd"} -> 2
      [] p \in {"sshEnded", "ran"} -> 3
      [] p \in Terminal -> 4

\* the place of each position in the text of Run
Order(p) ==
    CASE p = "start" -> 0
      [] p = "loaded" -> 1
      [] p \in {"ssh", "archOK"} -> 2
      [] p = "scoped" -> 3
      [] p = "cmd" -> 4
      [] p \in {"sshEnded", "ran"} -> 5
      [] p \in Terminal -> 6

\* C10: an invocation performs at most one execution, a local child or a
\* remote session; a completion request performs none and calls no
\* locator; an invocation only moves forward through its phases, an
\* execution is entered from the local or the remote phase only, a terminal
\* state is never left, and once the child or the session has ended the
\* invocation reaches a terminal state.
C10_StateMachine ==
    /\ [](Executions <= 1)
    /\ [](kind = "complete" =>
             /\ Executions = 0
             /\ locatorCalls = <<>>
             /\ pc \in {"start", "completed"})
    /\ [][/\ Order(pc') > Order(pc)
          /\ Phase(pc') >= Phase(pc)
          /\ Phase(pc') = 3 => (Phase(pc) = 2 /\ Executions' = Executions + 1)
          /\ Phase(pc') # 3 => Executions' = Executions]_vars
    /\ (pc \in {"sshEnded", "ran"}) ~> (pc \in {"returned", "exited"})

C10_Witness ==
    /\ pc = "exited"
    /\ runErr = [kind |-> "exited", code |-> 1]
    /\ Len(runCalls) = 1
    /\ sshCalls = <<>>

=============================================================================
